---- MODULE Spec2Model ----
(***************************************************************************)
(* Document encryption helpers of the secret store                         *)
(* (rpc/src/v1/helpers/secretstore.rs): encrypt_document,                   *)
(* decrypt_document, decrypt_document_with_shadow and their private        *)
(* helpers.  Byte buffers are sequences of numbers 0..255.  The block      *)
(* cipher (crypto::aes) and the curve arithmetic (ethkey::math,            *)
(* ethkey::Secret) live outside the two source files; they are modelled    *)
(* from their description: a counter-mode stream cipher, and a cyclic      *)
(* group of prime order whose points are written by their discrete         *)
(* logarithm.                                                              *)
(***************************************************************************)
EXTENDS Integers, Sequences, FiniteSets, TLC

----------------------------------------------------------------------------
(* Program constants *)

INIT_VEC_LEN == 16

KEY_LEN == 64

(* Bounds of the model *)

MaxDocLen == 2

MaxCoeffs == 2

(* Order of the scale model of the curve group (a prime). *)
GroupOrder == 5

----------------------------------------------------------------------------
(* Results: Ok(bytes), Err(error), or a panic (the thread aborts). *)

Ok(v) == [tag |-> "Ok", err |-> "", val |-> v]

Err(e) == [tag |-> "Err", err |-> e, val |-> <<>>]

Panic(why) == [tag |-> "Panic", err |-> why, val |-> <<>>]

Pending == [tag |-> "Pending", err |-> "", val |-> <<>>]

----------------------------------------------------------------------------
(* Bytes *)

RECURSIVE BitXor(_, _, _)
BitXor(a, b, n) ==
  IF n = 0 THEN 0
  ELSE (((a % 2) + (b % 2)) % 2) + 2 * BitXor(a \div 2, b \div 2, n - 1)

Xor8(a, b) == BitXor(a, b, 8)

RECURSIVE WeightedSum(_, _)
WeightedSum(s, n) ==
  IF n = 0 THEN 0 ELSE (WeightedSum(s, n - 1) * 3 + s[n] * (2 * n + 1)) % 251

(* Byte i (from 1) of the key stream of the cipher under key k and iv. *)
KeyStreamByte(k, iv, i) ==
  (WeightedSum(k, Len(k)) * 7 + WeightedSum(iv, Len(iv)) * 13 + 29 * i + 101) % 256

(* crypto::aes::encrypt: AES-128 in counter mode, output as long as input. *)
aes_encrypt(k, iv, plain) ==
  [i \in 1..Len(plain) |-> Xor8(plain[i], KeyStreamByte(k, iv, i))]

(* crypto::aes::decrypt: the same key stream removed again. *)
aes_decrypt(k, iv, encrypted) ==
  [i \in 1..Len(encrypted) |-> Xor8(encrypted[i], KeyStreamByte(k, iv, i))]

----------------------------------------------------------------------------
(* Curve points and scalars.                                               *)
(* Public: 0 is a 64-byte value that is no curve point; 1..GroupOrder-1    *)
(* are the points p*G.  The point at infinity has no 64-byte form.         *)
(* Secret: 0 (zero) and GroupOrder (out of range) are malformed;           *)
(* 1..GroupOrder-1 are the valid scalars.                                  *)

Public == 0..(GroupOrder - 1)

Secret == 0..GroupOrder

ValidPublic(p) == p \in 1..(GroupOrder - 1)

ValidSecret(s) == s \in 1..(GroupOrder - 1)

(* The x coordinate is shared by a point and its negation. *)
XCoord(p) == IF 2 * p > GroupOrder THEN GroupOrder - p ELSE p

(* Public::to_vec: 32 bytes of x followed by 32 bytes of y. *)
to_vec(p) ==
  [i \in 1..KEY_LEN |->
     IF p = 0 THEN 0
     ELSE IF i <= KEY_LEN \div 2 THEN (XCoord(p) * 37 + i) % 256
     ELSE (p * 59 + i) % 256]

(* Secret::add: fails on a malformed operand or a zero sum. *)
secret_add(a, b) ==
  IF ~ValidSecret(a) \/ ~ValidSecret(b) THEN [ok |-> FALSE, val |-> a]
  ELSE IF (a + b) % GroupOrder = 0 THEN [ok |-> FALSE, val |-> a]
  ELSE [ok |-> TRUE, val |-> (a + b) % GroupOrder]

(* math::public_mul_secret: fails on a malformed scalar or an invalid point. *)
public_mul_secret(public, secret) ==
  IF ~ValidSecret(secret) \/ ~ValidPublic(public) THEN [ok |-> FALSE, val |-> public]
  ELSE IF (public * secret) % GroupOrder = 0 THEN [ok |-> FALSE, val |-> public]
  ELSE [ok |-> TRUE, val |-> (public * secret) % GroupOrder]

(* math::public_add: fails on an invalid point or a sum at infinity. *)
public_add(public, other) ==
  IF ~ValidPublic(public) \/ ~ValidPublic(other) THEN [ok |-> FALSE, val |-> public]
  ELSE IF (public + other) % GroupOrder = 0 THEN [ok |-> FALSE, val |-> public]
  ELSE [ok |-> TRUE, val |-> (public + other) % GroupOrder]

----------------------------------------------------------------------------
(* The functions of secretstore.rs *)

(* Variants with a plausible slip each, used to test the properties below. *)

into_document_key_at_least(key) ==
  IF Len(key) < KEY_LEN THEN Err("InvalidKeyLength")
  ELSE Ok(SubSeq(key, 1, INIT_VEC_LEN))

into_document_key_x_coordinate(key) ==
  IF Len(key) # KEY_LEN THEN Err("InvalidKeyLength")
  ELSE Ok(SubSeq(key, 1, KEY_LEN \div 2))

into_document_key(key) ==
  IF Len(key) # KEY_LEN THEN Err("InvalidKeyLength")
  ELSE Ok(SubSeq(key, 1, INIT_VEC_LEN))

(* rng: [ok |-> whether OsRng::new() succeeded, bytes |-> the bytes it filled] *)
initialization_vector(rng) ==
  IF rng.ok THEN Ok(rng.bytes) ELSE Panic("OsRng")

encrypt_document_iv_first(key, document, rng) ==
  LET k == into_document_key(key) IN
  IF k.tag # "Ok" THEN k
  ELSE LET iv == initialization_vector(rng) IN
       IF iv.tag # "Ok" THEN iv
       ELSE Ok(iv.val \o aes_encrypt(k.val, iv.val, document))

encrypt_document(key, document, rng) ==
  LET k == into_document_key(key) IN
  IF k.tag # "Ok" THEN k
  ELSE LET iv == initialization_vector(rng) IN
       IF iv.tag # "Ok" THEN iv
       ELSE Ok(aes_encrypt(k.val, iv.val, document) \o iv.val)

decrypt_document_iv_first(key, encrypted_document) ==
  LET encrypted_document_len == Len(encrypted_document) IN
  IF encrypted_document_len < INIT_VEC_LEN THEN Err("InvalidCiphertext")
  ELSE LET k == into_document_key(key) IN
       IF k.tag # "Ok" THEN k
       ELSE LET iv == SubSeq(encrypted_document, 1, INIT_VEC_LEN)
                body == SubSeq(encrypted_document, INIT_VEC_LEN + 1,
                               encrypted_document_len)
            IN Ok(aes_decrypt(k.val, iv, body))

decrypt_document_key_first(key, encrypted_document) ==
  LET k == into_document_key(key)
      encrypted_document_len == Len(encrypted_document) IN
  IF k.tag # "Ok" THEN k
  ELSE IF encrypted_document_len < INIT_VEC_LEN THEN Err("InvalidCiphertext")
  ELSE LET iv == SubSeq(encrypted_document,
                        encrypted_document_len - INIT_VEC_LEN + 1,
                        encrypted_document_len)
           body == SubSeq(encrypted_document, 1,
                          encrypted_document_len - INIT_VEC_LEN)
       IN Ok(aes_decrypt(k.val, iv, body))

decrypt_document(key, encrypted_document) ==
  LET encrypted_document_len == Len(encrypted_document) IN
  IF encrypted_document_len < INIT_VEC_LEN THEN Err("InvalidCiphertext")
  ELSE LET k == into_document_key(key) IN
       IF k.tag # "Ok" THEN k
       ELSE LET iv == SubSeq(encrypted_document,
                             encrypted_document_len - INIT_VEC_LEN + 1,
                             encrypted_document_len)
                body == SubSeq(encrypted_document, 1,
                               encrypted_document_len - INIT_VEC_LEN)
            IN Ok(aes_decrypt(k.val, iv, body))

----------------------------------------------------------------------------
(* Inputs *)

DocBytes == {72, 222}

Documents == UNION {[1..n -> DocBytes] : n \in 0..MaxDocLen}

IVSeeds == {1, 200}

IVOf(seed) == [i \in 1..INIT_VEC_LEN |-> (seed + 17 * i) % 256]

RngDraws ==
  {[ok |-> TRUE, bytes |-> IVOf(s)] : s \in IVSeeds} \cup {[ok |-> FALSE, bytes |-> <<>>]}

NoRng == [ok |-> FALSE, bytes |-> <<>>]

(* Encodings of the curve points. *)
PointKeys == {to_vec(p) : p \in 1..(GroupOrder - 1)}

(* 64 bytes that agree with to_vec(1) on bytes 0..15 and differ at byte 16. *)
TweakedKey == [to_vec(1) EXCEPT ![INIT_VEC_LEN + 1] = (@ + 1) % 256]

WrongLengthKeys ==
  {<<>>, SubSeq(to_vec(1), 1, INIT_VEC_LEN), SubSeq(to_vec(1), 1, KEY_LEN - 1),
   to_vec(1) \o <<0>>}

KeyMaterials == PointKeys \cup {to_vec(0), TweakedKey} \cup WrongLengthKeys

BufferOf(n) == [i \in 1..n |-> (11 * i + 3) % 256]

Buffers == {BufferOf(n) : n \in 0..(INIT_VEC_LEN + MaxDocLen)}

ShortBuffer == BufferOf(INIT_VEC_LEN - 1)

RefDocument == <<222, 173, 190, 239>>

RefRng == [ok |-> TRUE, bytes |-> IVOf(1)]

(* Zero, two valid scalars that sum to zero, and an out-of-range scalar. *)
ScalarChoices == {0, 1, GroupOrder - 1, GroupOrder}

CoefficientLists == UNION {[1..n -> ScalarChoices] : n \in 0..MaxCoeffs}

----------------------------------------------------------------------------
(* State: the call in progress (or the last one finished) and what the     *)
(* caller holds.                                                           *)

VARIABLES
  pc,                       \* "idle", "seed", "sum", "add", "decrypt", "done"
  op,                       \* "none", "encrypt", "decrypt", "shadow"
  key,                      \* key: Bytes of encrypt_document / decrypt_document
  document,                 \* document: Bytes of encrypt_document
  rng,                      \* what the random source gives this call
  encrypted_document,       \* encrypted_document: Bytes
  decrypted_secret,         \* the caller's decrypted shadow point
  common_point,             \* the caller's common point
  shadows,                  \* the caller's coefficient list
  decrypted_shadow,         \* working copy, decrypt_with_shadow_coefficients
  common_shadow_point,      \* working copy, decrypt_with_shadow_coefficients
  shadow_coefficients_sum,  \* running sum
  next_coefficient,         \* position of the loop's iterator (from 1)
  log,                      \* the arithmetic and cipher steps attempted
  result,                   \* what the call returned
  stored                    \* the last encrypted document the caller received

vars ==
  <<pc, op, key, document, rng, encrypted_document, decrypted_secret, common_point,
    shadows, decrypted_shadow, common_shadow_point, shadow_coefficients_sum,
    next_coefficient, log, result, stored>>

NothingStored ==
  [has |-> FALSE, key |-> <<>>, document |-> <<>>, iv |-> <<>>, buffer |-> <<>>]

NoShadowCall ==
  /\ decrypted_secret' = 0
  /\ common_point' = 0
  /\ shadows' = <<>>
  /\ decrypted_shadow' = 0
  /\ common_shadow_point' = 0
  /\ shadow_coefficients_sum' = 0
  /\ next_coefficient' = 0
  /\ log' = <<>>

Init ==
  /\ pc = "idle"
  /\ op = "none"
  /\ key = <<>>
  /\ document = <<>>
  /\ rng = NoRng
  /\ encrypted_document = <<>>
  /\ decrypted_secret = 0
  /\ common_point = 0
  /\ shadows = <<>>
  /\ decrypted_shadow = 0
  /\ common_shadow_point = 0
  /\ shadow_coefficients_sum = 0
  /\ next_coefficient = 0
  /\ log = <<>>
  /\ result = Pending
  /\ stored = NothingStored

CanCall == pc = "idle"

(* The caller takes the result; nothing of the call is kept. *)
Return ==
  /\ pc = "done"
  /\ pc' = "idle"
  /\ op' = "none"
  /\ key' = <<>>
  /\ document' = <<>>
  /\ rng' = NoRng
  /\ encrypted_document' = <<>>
  /\ NoShadowCall
  /\ result' = Pending
  /\ UNCHANGED stored

(* encrypt_document(k, d) with the random source giving r; the caller keeps *)
(* the encrypted document it gets back.                                     *)
Encrypt(k, d, r) ==
  /\ CanCall
  /\ pc' = "done"
  /\ op' = "encrypt"
  /\ key' = k
  /\ document' = d
  /\ rng' = r
  /\ encrypted_document' = <<>>
  /\ NoShadowCall
  /\ result' = encrypt_document(k, d, r)
  /\ stored' = IF result'.tag = "Ok"
               THEN [has |-> TRUE, key |-> k, document |-> d, iv |-> r.bytes,
                     buffer |-> result'.val]
               ELSE stored

EncryptCall == \E k \in KeyMaterials, d \in Documents, r \in RngDraws : Encrypt(k, d, r)

(* decrypt_document(k, e): e is any buffer, or the stored encrypted document. *)
DecryptCall ==
  \E k \in KeyMaterials,
     e \in Buffers \cup (IF stored.has THEN {stored.buffer} ELSE {}) :
    /\ CanCall
    /\ pc' = "done"
    /\ op' = "decrypt"
    /\ key' = k
    /\ document' = <<>>
    /\ rng' = NoRng
    /\ encrypted_document' = e
    /\ NoShadowCall
    /\ result' = decrypt_document(k, e)
    /\ UNCHANGED stored

(* The encryption whose key is the encoding of a curve point. *)
EncryptPointKey == \E k \in PointKeys : Encrypt(k, RefDocument, RefRng)

Step(name, ok) == [step |-> name, ok |-> ok]

EncryptionError ==
  /\ result' = Err("EncryptionError")
  /\ pc' = "done"

(* decrypt_document_with_shadow is called: the arguments are moved into    *)
(* decrypt_with_shadow_coefficients, the points as its own mutable copies. *)
ShadowCall ==
  \E ds \in Public, cp \in Public, cs \in CoefficientLists,
     e \in {ShortBuffer} \cup (IF stored.has THEN {stored.buffer} ELSE {}) :
    /\ CanCall
    /\ pc' = "seed"
    /\ op' = "shadow"
    /\ key' = <<>>
    /\ document' = <<>>
    /\ rng' = NoRng
    /\ encrypted_document' = e
    /\ decrypted_secret' = ds
    /\ common_point' = cp
    /\ shadows' = cs
    /\ decrypted_shadow' = ds
    /\ common_shadow_point' = cp
    /\ shadow_coefficients_sum' = 0
    /\ next_coefficient' = 0
    /\ log' = <<>>
    /\ result' = Pending
    /\ UNCHANGED stored

(* SeedStep with the iterator not skipping the first coefficient. *)
SeedStep_no_skip ==
  /\ pc = "seed"
  /\ IF Len(shadows) = 0
     THEN /\ result' = Panic("index out of bounds")
          /\ pc' = "done"
          /\ UNCHANGED <<shadow_coefficients_sum, next_coefficient>>
     ELSE /\ shadow_coefficients_sum' = shadows[1]
          /\ next_coefficient' = 1
          /\ pc' = "sum"
          /\ UNCHANGED result
  /\ UNCHANGED <<op, key, document, rng, encrypted_document, decrypted_secret,
                 common_point, shadows, decrypted_shadow, common_shadow_point, log,
                 stored>>

(* let mut shadow_coefficients_sum = shadow_coefficients[0].clone();       *)
(* the index panics on an empty list.  The loop's iterator skips one.     *)
SeedStep ==
  /\ pc = "seed"
  /\ IF Len(shadows) = 0
     THEN /\ result' = Panic("index out of bounds")
          /\ pc' = "done"
          /\ UNCHANGED <<shadow_coefficients_sum, next_coefficient>>
     ELSE /\ shadow_coefficients_sum' = shadows[1]
          /\ next_coefficient' = 2
          /\ pc' = "sum"
          /\ UNCHANGED result
  /\ UNCHANGED <<op, key, document, rng, encrypted_document, decrypted_secret,
                 common_point, shadows, decrypted_shadow, common_shadow_point, log,
                 stored>>

(* SumStep with the failure of an addition dropped instead of returned. *)
SumStep_ignores_failure ==
  /\ pc = "sum"
  /\ next_coefficient <= Len(shadows)
  /\ LET r == secret_add(shadow_coefficients_sum, shadows[next_coefficient]) IN
     /\ log' = Append(log, Step("add", r.ok))
     /\ shadow_coefficients_sum' = r.val
     /\ next_coefficient' = next_coefficient + 1
     /\ UNCHANGED <<pc, result>>
  /\ UNCHANGED <<op, key, document, rng, encrypted_document, decrypted_secret,
                 common_point, shadows, decrypted_shadow, common_shadow_point, stored>>

(* One turn of the loop: shadow_coefficients_sum.add(shadow_coefficient)?  *)
SumStep ==
  /\ pc = "sum"
  /\ next_coefficient <= Len(shadows)
  /\ LET r == secret_add(shadow_coefficients_sum, shadows[next_coefficient]) IN
     /\ log' = Append(log, Step("add", r.ok))
     /\ IF r.ok
        THEN /\ shadow_coefficients_sum' = r.val
             /\ next_coefficient' = next_coefficient + 1
             /\ UNCHANGED <<pc, result>>
        ELSE /\ EncryptionError
             /\ UNCHANGED <<shadow_coefficients_sum, next_coefficient>>
  /\ UNCHANGED <<op, key, document, rng, encrypted_document, decrypted_secret,
                 common_point, shadows, decrypted_shadow, common_shadow_point, stored>>

(* MulStep multiplying the caller's point in place, not a copy of it. *)
MulStep_in_place ==
  /\ pc = "sum"
  /\ next_coefficient > Len(shadows)
  /\ LET r == public_mul_secret(common_shadow_point, shadow_coefficients_sum) IN
     /\ log' = Append(log, Step("mul", r.ok))
     /\ IF r.ok
        THEN /\ common_shadow_point' = r.val
             /\ common_point' = r.val
             /\ pc' = "add"
             /\ UNCHANGED result
        ELSE /\ EncryptionError
             /\ UNCHANGED <<common_shadow_point, common_point>>
  /\ UNCHANGED <<op, key, document, rng, encrypted_document, decrypted_secret,
                 shadows, decrypted_shadow, shadow_coefficients_sum,
                 next_coefficient, stored>>

(* math::public_mul_secret(&mut common_shadow_point, &shadow_coefficients_sum)? *)
MulStep ==
  /\ pc = "sum"
  /\ next_coefficient > Len(shadows)
  /\ LET r == public_mul_secret(common_shadow_point, shadow_coefficients_sum) IN
     /\ log' = Append(log, Step("mul", r.ok))
     /\ IF r.ok
        THEN /\ common_shadow_point' = r.val
             /\ pc' = "add"
             /\ UNCHANGED result
        ELSE /\ EncryptionError
             /\ UNCHANGED common_shadow_point
  /\ UNCHANGED <<op, key, document, rng, encrypted_document, decrypted_secret,
                 common_point, shadows, decrypted_shadow, shadow_coefficients_sum,
                 next_coefficient, stored>>

(* AddStep with the sum computed and not written back. *)
AddStep_sum_discarded ==
  /\ pc = "add"
  /\ LET r == public_add(decrypted_shadow, common_shadow_point) IN
     /\ log' = Append(log, Step("padd", r.ok))
     /\ IF r.ok
        THEN /\ pc' = "decrypt"
             /\ UNCHANGED result
        ELSE EncryptionError
  /\ UNCHANGED <<op, key, document, rng, encrypted_document, decrypted_secret,
                 common_point, shadows, decrypted_shadow, common_shadow_point,
                 shadow_coefficients_sum, next_coefficient, stored>>

(* math::public_add(&mut decrypted_shadow, &common_shadow_point)? *)
AddStep ==
  /\ pc = "add"
  /\ LET r == public_add(decrypted_shadow, common_shadow_point) IN
     /\ log' = Append(log, Step("padd", r.ok))
     /\ IF r.ok
        THEN /\ decrypted_shadow' = r.val
             /\ pc' = "decrypt"
             /\ UNCHANGED result
        ELSE /\ EncryptionError
             /\ UNCHANGED decrypted_shadow
  /\ UNCHANGED <<op, key, document, rng, encrypted_document, decrypted_secret,
                 common_point, shadows, common_shadow_point, shadow_coefficients_sum,
                 next_coefficient, stored>>

(* Ok(decrypted_shadow) is bound to key; decrypt_document(key.to_vec(), ..) *)
DecryptStep ==
  /\ pc = "decrypt"
  /\ key' = to_vec(decrypted_shadow)
  /\ result' = decrypt_document(key', encrypted_document)
  /\ log' = Append(log, Step("decrypt", result'.tag = "Ok"))
  /\ pc' = "done"
  /\ UNCHANGED <<op, document, rng, encrypted_document, decrypted_secret,
                 common_point, shadows, decrypted_shadow, common_shadow_point,
                 shadow_coefficients_sum, next_coefficient, stored>>

Next == EncryptCall \/ DecryptCall \/ Return

NextShadow ==
  \/ EncryptPointKey
  \/ ShadowCall
  \/ SeedStep
  \/ SumStep
  \/ MulStep
  \/ AddStep
  \/ DecryptStep
  \/ Return

SpecShadow == Init /\ [][NextShadow]_vars

Spec == Init /\ [][Next]_vars

----------------------------------------------------------------------------
(* Properties of encrypt_document and decrypt_document (Spec)              *)

Encrypted == pc = "done" /\ op = "encrypt"

Decrypted == pc = "done" /\ op = "decrypt"

Prefix(s) == SubSeq(s, 1, INIT_VEC_LEN)

(* The stored encrypted document is being decrypted. *)
DecryptsStored == Decrypted /\ stored.has /\ encrypted_document = stored.buffer

(* C1 Round-trip: with 64 bytes of key material and any plaintext,         *)
(* whatever IV is drawn, encrypt_document succeeds, and decrypt_document   *)
(* of its output under the same key material succeeds and returns exactly  *)
(* the plaintext.                                                          *)
C1_RoundTrip ==
  /\ (Encrypted /\ Len(key) = KEY_LEN /\ rng.ok) =>
       /\ result.tag = "Ok"
       /\ stored.has /\ stored.buffer = result.val /\ stored.document = document
  /\ (DecryptsStored /\ key = stored.key) => result = Ok(stored.document)

C1_Witness ==
  /\ DecryptsStored
  /\ key = stored.key
  /\ Len(stored.document) = MaxDocLen
  /\ result.val = stored.document
  /\ SubSeq(stored.buffer, 1, MaxDocLen) # stored.document

C1_WitnessEmpty ==
  /\ DecryptsStored
  /\ key = stored.key
  /\ stored.document = <<>>
  /\ result = Ok(<<>>)

(* C2, as stated: encrypt_document and decrypt_document fail with          *)
(* InvalidKeyLength whenever the key material is not 64 bytes long,        *)
(* whatever the plaintext or the buffer, buffers under 16 bytes included.  *)
C2_KeyLengthGuardAnyBuffer ==
  ((Encrypted \/ Decrypted) /\ Len(key) # KEY_LEN) => result = Err("InvalidKeyLength")

(* C2, amended: encrypt_document fails with InvalidKeyLength whenever the  *)
(* key material is not 64 bytes long, whatever the plaintext;              *)
(* decrypt_document does so whenever the key material is not 64 bytes long *)
(* and the buffer has at least 16 bytes (a shorter buffer is refused       *)
(* first, with InvalidCiphertext).                                         *)
C2_KeyLengthGuard ==
  /\ (Encrypted /\ Len(key) # KEY_LEN) => result = Err("InvalidKeyLength")
  /\ (Decrypted /\ Len(key) # KEY_LEN /\ Len(encrypted_document) >= INIT_VEC_LEN) =>
       result = Err("InvalidKeyLength")
  /\ (Decrypted /\ Len(key) # KEY_LEN /\ Len(encrypted_document) < INIT_VEC_LEN) =>
       result = Err("InvalidCiphertext")

C2_Witness ==
  /\ Decrypted
  /\ Len(key) = KEY_LEN + 1
  /\ Len(encrypted_document) = INIT_VEC_LEN
  /\ result = Err("InvalidKeyLength")

(* C3 Length guard: decrypt_document fails with InvalidCiphertext for any  *)
(* buffer shorter than 16 bytes, whatever the key material (of the right   *)
(* length or not), and never fails with InvalidCiphertext for a buffer of  *)
(* 16 bytes or more.                                                       *)
C3_LengthGuard ==
  Decrypted =>
    (Len(encrypted_document) < INIT_VEC_LEN <=> result = Err("InvalidCiphertext"))

C3_Witness ==
  /\ Decrypted
  /\ Len(key) # KEY_LEN
  /\ Len(encrypted_document) = INIT_VEC_LEN - 1
  /\ result = Err("InvalidCiphertext")

(* C5 Framing and sizes: encrypt_document returns len(P) + 16 bytes: the   *)
(* cipher output for P under the derived key and the drawn IV, then that   *)
(* IV; decrypt_document of n >= 16 bytes returns n - 16 bytes, the first   *)
(* n - 16 bytes deciphered with the last 16 bytes as IV.                   *)
C5_Framing ==
  /\ (Encrypted /\ Len(key) = KEY_LEN /\ rng.ok) =>
       /\ result.tag = "Ok"
       /\ Len(result.val) = Len(document) + INIT_VEC_LEN
       /\ SubSeq(result.val, 1, Len(document))
            = aes_encrypt(Prefix(key), rng.bytes, document)
       /\ SubSeq(result.val, Len(document) + 1, Len(result.val)) = rng.bytes
  /\ (Decrypted /\ Len(key) = KEY_LEN /\ Len(encrypted_document) >= INIT_VEC_LEN) =>
       LET n == Len(encrypted_document) IN
       /\ result.tag = "Ok"
       /\ Len(result.val) = n - INIT_VEC_LEN
       /\ result.val = aes_decrypt(Prefix(key),
                                   SubSeq(encrypted_document, n - INIT_VEC_LEN + 1, n),
                                   SubSeq(encrypted_document, 1, n - INIT_VEC_LEN))

C5_Witness ==
  /\ Encrypted
  /\ Len(document) = MaxDocLen
  /\ result.tag = "Ok"
  /\ Len(result.val) = MaxDocLen + INIT_VEC_LEN
  /\ SubSeq(result.val, 1, MaxDocLen) # document
  /\ SubSeq(result.val, 1, INIT_VEC_LEN) # rng.bytes

(* C10 Key derivation prefix: the symmetric key is the first 16 bytes of   *)
(* the key material, so two 64-byte key materials that agree on bytes      *)
(* 0..15 are interchangeable: they decrypt every buffer alike, and a       *)
(* document encrypted under one decrypts to its plaintext under the other. *)
C10_KeyPrefix ==
  /\ Decrypted =>
       \A k2 \in KeyMaterials :
         (Len(key) = KEY_LEN /\ Len(k2) = KEY_LEN /\ Prefix(k2) = Prefix(key)) =>
           decrypt_document(k2, encrypted_document) = result
  /\ (DecryptsStored /\ Len(key) = KEY_LEN /\ Prefix(key) = Prefix(stored.key)) =>
       result = Ok(stored.document)

C10_Witness ==
  /\ DecryptsStored
  /\ Len(key) = KEY_LEN
  /\ Prefix(key) = Prefix(stored.key)
  /\ SubSeq(key, INIT_VEC_LEN + 1, 2 * INIT_VEC_LEN)
       # SubSeq(stored.key, INIT_VEC_LEN + 1, 2 * INIT_VEC_LEN)
  /\ Len(stored.document) = MaxDocLen
  /\ result = Ok(stored.document)

----------------------------------------------------------------------------
(* Properties of decrypt_document_with_shadow (SpecShadow)                 *)

RECURSIVE SumOf(_)
SumOf(cs) == IF Len(cs) = 0 THEN 0 ELSE cs[1] + SumOf(Tail(cs))

(* decrypted_shadow + common_point * (sum of the coefficients), in the group. *)
Combination(ds, cp, cs) == (ds + cp * SumOf(cs)) % GroupOrder

WellFormed(cs) == \A i \in 1..Len(cs) : ValidSecret(cs[i])

NoZeroRunningSum(cs) ==
  \A n \in 1..Len(cs) : SumOf(SubSeq(cs, 1, n)) % GroupOrder # 0

ShadowDone == pc = "done" /\ op = "shadow"

(* The call's inputs reconstruct the point under whose encoding the stored *)
(* document was encrypted, and the stored document is what it decrypts.    *)
ReconstructsStoredKey ==
  /\ ShadowDone
  /\ stored.has
  /\ encrypted_document = stored.buffer
  /\ Len(shadows) > 0
  /\ ValidPublic(decrypted_secret)
  /\ ValidPublic(common_point)
  /\ WellFormed(shadows)
  /\ stored.key = to_vec(Combination(decrypted_secret, common_point, shadows))

(* C4, as stated: whenever decrypted_shadow + common_point * (sum of the   *)
(* coefficients) is the point under whose encoding a document was          *)
(* encrypted, decrypt_document_with_shadow of that document succeeds and   *)
(* returns the plaintext.                                                  *)
C4_ShadowEquivalenceAnySum ==
  ReconstructsStoredKey => result = Ok(stored.document)

(* C4, amended: the same, provided no running sum c[0] + .. + c[k] of the  *)
(* coefficients is zero modulo the group order (the scalar addition fails  *)
(* there and the call returns EncryptionError); and the call never fails   *)
(* with InvalidKeyLength.                                                  *)
C4_ShadowEquivalence ==
  /\ (ReconstructsStoredKey /\ NoZeroRunningSum(shadows)) =>
       result = Ok(stored.document)
  /\ ShadowDone => result # Err("InvalidKeyLength")

C4_Witness ==
  /\ ReconstructsStoredKey
  /\ NoZeroRunningSum(shadows)
  /\ Len(shadows) = MaxCoeffs
  /\ XCoord(decrypted_secret) # XCoord(Combination(decrypted_secret, common_point, shadows))
  /\ result = Ok(RefDocument)

(* C6: every call ends by returning a result or one of InvalidKeyLength,   *)
(* InvalidCiphertext, EncryptionError; the only abort is the random source *)
(* being unavailable during encryption.                                    *)
C6_NoPanicOnInput ==
  /\ result.tag = "Panic" => (op = "encrypt" /\ ~rng.ok)
  /\ result.tag = "Err" =>
       result.err \in {"InvalidKeyLength", "InvalidCiphertext", "EncryptionError"}

(* C7 Non-mutation: while decrypt_document_with_shadow runs, to success or *)
(* to failure, the caller's decrypted shadow, common point and coefficient *)
(* list stay as passed; only the working copies change.                    *)
C7_NonMutation ==
  [][(op = "shadow" /\ pc # "done") =>
       /\ decrypted_secret' = decrypted_secret
       /\ common_point' = common_point
       /\ shadows' = shadows]_vars

C7_Witness ==
  /\ ShadowDone
  /\ result.tag = "Ok"
  /\ Len(shadows) = MaxCoeffs
  /\ decrypted_shadow # decrypted_secret
  /\ common_shadow_point # common_point
  /\ shadow_coefficients_sum # shadows[1]

(* The combination returned Ok: its point addition succeeded. *)
Combined ==
  /\ op = "shadow"
  /\ \E i \in 1..Len(log) : log[i].step = "padd" /\ log[i].ok

Count(name) == Cardinality({i \in 1..Len(log) : log[i].step = name})

(* C8 Combination result: when no arithmetic step fails the combination is *)
(* decrypted_shadow + common_point * S, S being the coefficients added in  *)
(* order modulo the group order from the first as seed, each counted once; *)
(* n coefficients take n - 1 scalar additions (none for a single one).     *)
C8_CombinationResult ==
  Combined =>
    LET S == SumOf(shadows) % GroupOrder IN
    /\ Len(shadows) > 0
    /\ shadow_coefficients_sum = S
    /\ common_shadow_point = (common_point * S) % GroupOrder
    /\ decrypted_shadow = (decrypted_secret + common_point * S) % GroupOrder
    /\ Count("add") = Len(shadows) - 1
    /\ Count("mul") = 1
    /\ Count("padd") = 1

C8_Witness ==
  /\ Combined
  /\ Len(shadows) = MaxCoeffs
  /\ shadow_coefficients_sum # shadows[1]
  /\ shadow_coefficients_sum = SumOf(shadows) % GroupOrder
  /\ decrypted_shadow # decrypted_secret

C8_WitnessSingle ==
  /\ Combined
  /\ Len(shadows) = 1
  /\ Count("add") = 0
  /\ shadow_coefficients_sum = shadows[1]

(* The steps of a call with n coefficients, in order. *)
StepOrder(n) ==
  [i \in 1..(n + 2) |->
     IF i < n THEN "add" ELSE IF i = n THEN "mul"
     ELSE IF i = n + 1 THEN "padd" ELSE "decrypt"]

(* C9 Failure aborts in order: the steps run as scalar additions, then the *)
(* multiplication, then the point addition, then the decryption, each once;*)
(* a failed arithmetic step is the last step of the call, which returns    *)
(* EncryptionError without looking at the encrypted document.              *)
C9_FailureAbortsInOrder ==
  (op = "shadow" /\ Len(shadows) > 0) =>
    /\ Len(log) <= Len(shadows) + 2
    /\ \A i \in 1..Len(log) : log[i].step = StepOrder(Len(shadows))[i]
    /\ \A i \in 1..Len(log) :
         (log[i].step # "decrypt" /\ ~log[i].ok) =>
           /\ i = Len(log)
           /\ pc = "done"
           /\ result = Err("EncryptionError")
    /\ result = Err("EncryptionError") =>
         /\ Len(log) > 0
         /\ log[Len(log)].step # "decrypt"
         /\ ~log[Len(log)].ok

C9_Witness ==
  /\ ShadowDone
  /\ Len(shadows) = MaxCoeffs
  /\ Len(encrypted_document) < INIT_VEC_LEN
  /\ log = <<Step("add", FALSE)>>
  /\ result = Err("EncryptionError")

C9_WitnessMul ==
  /\ ShadowDone
  /\ Len(log) > 0
  /\ Len(log) = Len(shadows)
  /\ log[Len(log)] = Step("mul", FALSE)
  /\ result = Err("EncryptionError")

====
